---- MODULE Spec2Model ----
(***************************************************************************)
(* hossam/classification.py: the multi-model dispatcher my_classification, *)
(* the per-algorithm wrappers my_<alg>_classification, the single-model    *)
(* trainer __my_classification and the metric reporter                     *)
(* my_classification_result.                                               *)
(*                                                                         *)
(* The dispatcher submits one job per selected algorithm to a              *)
(* ThreadPoolExecutor, drains the futures with as_completed, and builds    *)
(* the comparison table.  Estimators, searches and metrics belong to       *)
(* scikit-learn: whether a search, a fit or a scoring call raises on the   *)
(* given data is an input of the job, chosen when the job finishes.        *)
(***************************************************************************)
EXTENDS Integers, Sequences, FiniteSets, TLC

(***************************************************************************)
(* Bounds of the model.                                                    *)
(***************************************************************************)
\* jobs in progress at the same time: ThreadPoolExecutor() sizes its pool by
\* the host, and a worker thread may start its job as late as the scheduler
\* likes, so every run with fewer jobs in progress is a run of the program
MaxWorkers == 2
\* data-dependent failures (search, fit or scoring raising) in one batch
MaxFaults == 1
\* size of an explicit algorithm list in the general specification
MaxSubset == 2
\* largest count in a cell of a confusion matrix
MaxCount == 3

(***************************************************************************)
(* The algorithms, in the order of the `if` statements of my_classification*)
(***************************************************************************)
Algorithms == <<"logistic", "knn", "svc", "nb", "dtree", "sgd">>

Identifiers == {Algorithms[i] : i \in 1..Len(Algorithms)}

\* an identifier no `if` of my_classification tests (its block is commented out)
Unrecognised == {"lsvc"}

\* estimator.__class__.__name__ of the estimator each wrapper passes as classname
ClassName(a) ==
    CASE a = "logistic" -> "LogisticRegression"
      [] a = "knn"      -> "KNeighborsClassifier"
      [] a = "svc"      -> "SVC"
      [] a = "nb"       -> "GaussianNB"
      [] a = "dtree"    -> "DecisionTreeClassifier"
      [] a = "sgd"      -> "SGDClassifier"

(***************************************************************************)
(* Hyperparameters, the keyword arguments `params`.  One mapping is passed *)
(* to every job:                                                           *)
(*   "none"        {}                                                      *)
(*   "probability" probability=True      (a parameter of SVC only)         *)
(*   "bogus"       a name no constructor accepts                           *)
(***************************************************************************)
ParamChoices == {"none", "probability", "bogus"}

\* whether classname.__init__ / set_params accepts every name of params
Accepts(a, p) ==
    CASE p = "none"        -> TRUE
      [] p = "probability" -> a = "svc"
      [] p = "bogus"       -> FALSE

VARIABLES
    \* arguments of my_classification
    algorithm,        \* [given |-> BOOLEAN, ids |-> set of identifiers]; ~given is None
    cv,               \* fold count
    nclass,           \* number of classes of the target (len(estimator.classes_))
    multiclass,       \* "None", "ovo" or "ovr"
    x_test,           \* TRUE when x_test is not None
    y_test,           \* TRUE when y_test is not None
    params,           \* a member of ParamChoices
    display,          \* [conf_matrix, learning_curve, report]: the display arguments
    reliable,         \* TRUE when no call raises on this data for a reason of the data
    \* the dispatcher
    pc,               \* position of my_classification
    slot,             \* index of the next `if ... in algorithm` statement
    processes,        \* the list of submitted futures, by algorithm
    future,           \* per algorithm: state and result of its future
    done,             \* finished futures not yet yielded, in completion order
    finished,         \* as_completed: futures already finished at the call, not yet yielded
    pending,          \* as_completed: futures not finished at the call, not yet yielded
    estimator_names,  \* list
    results,          \* list of scorecards
    estimators,       \* dict name -> estimator (its keys, in insertion order)
    result_df,        \* the comparison table
    tables,           \* number of times the comparison table was built and rendered
    exc,              \* TRUE while an exception propagates out of the with-block
    faults,           \* data-dependent failures so far
    \* what the jobs and the dispatcher leave behind
    console,          \* per job: the rendering calls and print lines it has made
    kwargs,           \* per owner: the names in its hyperparameter mapping
    retval,           \* the value my_classification returned to its caller
    \* the rates of one binary confusion matrix
    conf_mat,         \* [TN, FP, FN, TP]
    rates,            \* [fallout, specificity] computed from conf_mat
    \* two calls of my_classification with the same arguments
    run,              \* 1 in the first call, 2 in the second
    first             \* the scorecards the first call gave

vars == <<algorithm, cv, nclass, multiclass, x_test, y_test, params, display, reliable,
          pc, slot, processes, future, done, finished, pending,
          estimator_names, results, estimators, result_df, tables, exc, faults,
          console, kwargs, retval, conf_mat, rates, run, first>>

config == <<algorithm, cv, nclass, multiclass, x_test, y_test, params, display, reliable>>

\* what no step of one call of my_classification touches
outside == <<conf_mat, rates, run, first>>

report == <<estimator_names, results, estimators>>

(***************************************************************************)
(* Sequence helpers                                                        *)
(***************************************************************************)
Range(s) == {s[i] : i \in 1..Len(s)}

Remove(s, x) == SelectSeq(s, LAMBDA y : y # x)

(***************************************************************************)
(* Metric reporter: my_classification_result                               *)
(***************************************************************************)
\* a decision tree without predict_proba
HasProbaNoTree(a, cv_, p) ==
    CASE a = "svc" -> {p = "probability"}
      [] a = "sgd" -> IF cv_ > 0 THEN BOOLEAN ELSE {FALSE}
      [] a = "dtree" -> {FALSE}
      [] OTHER     -> {TRUE}

\* hasattr(estimator, "predict_proba").  SVC exposes it only with
\* probability=True; SGDClassifier only with a probabilistic loss, which the
\* default (hinge) is not, and which the search may or may not select.
HasProbaChoices(a, cv_, p) ==
    CASE a = "svc" -> {p = "probability"}
      [] a = "sgd" -> IF cv_ > 0 THEN BOOLEAN ELSE {FALSE}
      [] OTHER     -> {TRUE}

BinaryKeys == {"Pseudo R2", "Accuracy", "Precision", "Recall", "Fallout", "TNR", "F1 Score"}

\* the multi-class row built like the binary one
MultiKeysWithRates == {"Accuracy", "Precision", "Recall", "Fallout", "TNR", "F1 Score"}

MultiKeys == {"Accuracy", "Precision", "Recall", "F1 Score"}

\* the keys of one row of `scores` (train or validation: both have the same keys)
ScoreKeys(nclass_, multiclass_, proba) ==
    IF nclass_ = 2
    THEN BinaryKeys \cup (IF proba THEN {"AUC"} ELSE {})
    ELSE MultiKeys
         \cup (IF proba /\ multiclass_ \in {"ovo", "None"} THEN {"AUC(ovo)"} ELSE {})
         \cup (IF proba /\ multiclass_ \in {"ovr", "None"} THEN {"AUC(ovr)"} ELSE {})

\* the value of one metric: pseudo R2 stays 0 unless the estimator is a
\* binary LogisticRegression; every other metric is the number v computed
\* from the predictions of the fitted estimator
ScoreValue(name, key, v) ==
    IF key = "Pseudo R2" /\ name # "LogisticRegression" THEN "0" ELSE v

\* score_names: the training row (x_train and y_train are given in every
\* job), the validation row when both x_test and y_test are given, and the
\* row of descriptions
ScoreNames(xt, yt) ==
    <<"train">> \o (IF xt /\ yt THEN <<"test">> ELSE <<>>) \o <<"description">>

\* scores[-1]
LastRow(s) == s[Len(s)]

\* scores[-2]
StoredRow(s) == s[Len(s) - 1]

\* estimator.scores = scores[-2]: the validation row when both x_test and
\* y_test are given, the training row otherwise
ScoreSplit(xt, yt) == StoredRow(ScoreNames(xt, yt))

\* numbers as numpy computes them on the counts of a confusion matrix: a
\* ratio n/d, or nan, or inf
Number(n, d) == [kind |-> "number", n |-> n, d |-> d]

NaN == [kind |-> "nan", n |-> 0, d |-> 1]

Inf == [kind |-> "inf", n |-> 1, d |-> 1]

\* a division that gives 0 for an empty denominator
DivideOrZero(n, d) == IF d # 0 THEN Number(n, d) ELSE Number(0, 1)

\* n / d on numpy integers: 0/0 is nan and x/0 is inf, with a warning and
\* without an exception
Divide(n, d) ==
    IF d # 0 THEN Number(n, d)
    ELSE IF n = 0 THEN NaN ELSE Inf

\* 1 - r
OneMinus(r) ==
    IF r.kind = "number" THEN Number(r.d - r.n, r.d)
    ELSE IF r.kind = "inf" THEN [kind |-> "-inf", n |-> 1, d |-> 1]
    ELSE NaN

\* lines 313 and 374: "위양성율(Fallout)": FP / (TN + FP)
Fallout(m) == Divide(m.FP, m.TN + m.FP)

\* lines 314 and 375: "특이성(TNR)": 1 - (FP / (TN + FP))
Specificity(m) == OneMinus(Divide(m.FP, m.TN + m.FP))

\* lines 441-447: the columns of the table my_classification_result prints
\* under is_print, without Pseudo R2 unless the estimator is a
\* LogisticRegression
PerModelColumns(name, keys) ==
    IF name # "LogisticRegression" THEN keys \ {"Pseudo R2"} ELSE keys

my_classification_result(name, nclass_, multiclass_, proba, xt, yt, v) ==
    [split |-> ScoreSplit(xt, yt),
     card  |-> [k \in ScoreKeys(nclass_, multiclass_, proba) |-> ScoreValue(name, k, v)]]

(***************************************************************************)
(* Single-model trainer: __my_classification                               *)
(* fault is what raises on this data: "none", "search" (grid.fit),         *)
(* "fit" (estimator.fit) or "score" (predict / a metric).                  *)
(***************************************************************************)
NoScores == [split |-> "", card |-> <<>>]

\* no estimator to attach data to
NoData == [x |-> "", y |-> "", y_pred |-> "", y_pred_proba |-> ""]

\* lines 167-169 and 172-176: estimator.predict / predict_proba on x_test
\* when x_test is given, else on x_train; the value is the split predicted
Predicted(xt) == IF xt THEN "test" ELSE "train"

\* lines 179-186: the attributes set on the estimator, each named by the
\* split it comes from: x by x_test alone, y by y_test alone, y_pred and
\* y_pred_proba the prediction above when y_test is given, else a new
\* prediction on x_train
Attached(proba, xt, yt) ==
    [x            |-> IF xt THEN "test" ELSE "train",
     y            |-> IF yt THEN "test" ELSE "train",
     y_pred       |-> IF yt THEN Predicted(xt) ELSE "train",
     y_pred_proba |-> IF ~proba THEN "absent"
                      ELSE IF yt THEN Predicted(xt) ELSE "train"]

\* `return None`
NoResult(stage) ==
    [kind |-> "None", name |-> "", proba |-> FALSE, stage |-> stage, scores |-> NoScores,
     data |-> NoData]

\* an exception leaves the function
Raised(stage) ==
    [kind |-> "raise", name |-> "", proba |-> FALSE, stage |-> stage, scores |-> NoScores,
     data |-> NoData]

\* `return estimator`, annotated with its scores
Fitted(a, nclass_, multiclass_, proba, xt, yt, v) ==
    [kind |-> "estimator", name |-> ClassName(a), proba |-> proba, stage |-> "done",
     scores |-> my_classification_result(ClassName(a), nclass_, multiclass_, proba, xt, yt, v),
     data |-> Attached(proba, xt, yt)]

\* the search outside try/except: its exception leaves the job
SearchFailureRaises == Raised("search")

\* lines 124-128: grid.fit is the only call inside try/except
SearchFailure == NoResult("search")

\* a fit whose exception is swallowed: the estimator is returned as it is
FitFailureUnscored ==
    [kind |-> "estimator", name |-> "", proba |-> FALSE, stage |-> "fit", scores |-> NoScores,
     data |-> NoData]

\* lines 160-161: the constructor call and estimator.fit are outside any try
FitFailure == Raised("fit")

\* lines 167-223: predictions and metrics are outside any try
ScoreFailure == Raised("score")

Trainer(a, cv_, p, multiclass_, nclass_, xt, yt, fault, proba, v) ==
    IF cv_ > 0
    THEN IF fault = "search" \/ ~Accepts(a, p)
         THEN SearchFailure
         ELSE IF fault = "score"
              THEN ScoreFailure
              ELSE Fitted(a, nclass_, multiclass_, proba, xt, yt, v)
    ELSE IF ~Accepts(a, p) \/ fault = "fit"
         THEN FitFailure
         ELSE IF fault = "score"
              THEN ScoreFailure
              ELSE Fitted(a, nclass_, multiclass_, proba, xt, yt, v)

\* the steps the trainer takes: the search (lines 79-134) or the fit (lines
\* 149-161) by the sign of cv, then the scoring (lines 167-223) unless the
\* step before raised
Steps(a, cv_, p, fault) ==
    IF cv_ > 0
    THEN IF fault = "search" \/ ~Accepts(a, p) THEN <<"search">> ELSE <<"search", "score">>
    ELSE IF ~Accepts(a, p) \/ fault = "fit" THEN <<"fit">> ELSE <<"fit", "score">>

\* my_svc_classification passing multiclass on like the other wrappers
WrapperForwards(a, multiclass_) == multiclass_

\* the wrappers my_<alg>_classification: my_svc_classification has no
\* multiclass parameter and passes none on, so its job runs with the default
WrapperMulticlass(a, multiclass_) == IF a = "svc" THEN "None" ELSE multiclass_

Job(a, fault, proba, v) ==
    Trainer(a, cv, params, WrapperMulticlass(a, multiclass), nclass,
            x_test, y_test, fault, proba, v)

\* what can raise in a job for a reason of the data: the search when there is
\* one, the fit when there is none, and the predictions and metrics
EnvFaults(cv_) ==
    IF ~reliable THEN (IF cv_ > 0 THEN {"none", "search", "score"} ELSE {"none", "fit", "score"})
    ELSE {"none"}

(***************************************************************************)
(* What a job writes, calls and injects besides training                   *)
(***************************************************************************)
\* the parameters of classname.__init__ that __my_classification looks for
Signature(a) ==
    CASE a = "logistic" -> {"n_jobs", "random_state"}
      [] a = "knn"      -> {"n_jobs"}
      [] a = "svc"      -> {"random_state"}
      [] a = "nb"       -> {}
      [] a = "dtree"    -> {"random_state"}
      [] a = "sgd"      -> {"n_jobs", "random_state", "early_stopping"}

\* an estimator built without a seed
Unseeded(a) == IF "random_state" \in Signature(a) THEN "None" ELSE "no parameter"

\* lines 93-94 and 155-156: random_state is 1234 for every estimator that
\* has the parameter, at every cv
RandomState(a) == IF "random_state" \in Signature(a) THEN "1234" ELSE "no parameter"

\* the numbers a fit on the same data can lead to: one, unless the estimator
\* draws from the global generator (random_state=None)
MetricValues(seed) ==
    IF seed = "None" THEN {"value", "another value"} ELSE {"value"}

\* the rendering collaborators
Rendering ==
    {"my_pretty_table", "my_confusion_matrix", "my_roc_curve", "my_learing_curve",
     "my_tree", "my_classification_report"}

\* the print lines of __my_classification and my_classification_result
Printing ==
    {"print n_jobs set", "print random_state set", "print early_stopping set",
     "print params", "print error", "print n_jobs not allowed",
     "print random_state not allowed", "print headings"}

\* the three values of the display arguments that decide a call; hist, roc
\* and pr are handed to my_roc_curve and decide none
Displays == [conf_matrix : BOOLEAN, learning_curve : BOOLEAN, report : BOOLEAN]

\* the defaults of my_classification
DefaultDisplay == [conf_matrix |-> TRUE, learning_curve |-> FALSE, report |-> FALSE]

\* the jobs running with is_print=True
is_print_default == TRUE

\* is_print=False in every executor.submit of my_classification
is_print == FALSE

\* my_nb_classification passes no conf_matrix on and my_svc_classification has
\* no report parameter: the trainer runs with its defaults for them
WrapperDisplay(a, d) ==
    CASE a = "nb"  -> [d EXCEPT !.conf_matrix = TRUE]
      [] a = "svc" -> [d EXCEPT !.report = FALSE]
      [] OTHER     -> d

\* lines 85-111 and 150-158: what the trainer prints before the search or
\* the fit; none of these lines is under `if is_print`
Preamble(a, cv_) ==
    IF cv_ > 0
    THEN (IF "n_jobs" \in Signature(a) THEN {"print n_jobs set"} ELSE {})
         \cup (IF "random_state" \in Signature(a) THEN {"print random_state set"} ELSE {})
         \cup (IF "early_stopping" \in Signature(a) THEN {"print early_stopping set"} ELSE {})
         \cup {"print params"}
    ELSE (IF "n_jobs" \in Signature(a) THEN {} ELSE {"print n_jobs not allowed"})
         \cup (IF "random_state" \in Signature(a) THEN {} ELSE {"print random_state not allowed"})

\* lines 136-147: the top-5 table of the search
SearchReport(cv_, isp) ==
    IF cv_ > 0 /\ isp THEN {"print headings", "my_pretty_table"} ELSE {}

\* lines 439-517 and 227-228: the tables and plots of a scored estimator
Renders(a, d, isp, proba) ==
    (IF isp THEN {"print headings", "my_pretty_table"} ELSE {})
    \cup (IF d.conf_matrix /\ isp THEN {"my_confusion_matrix"} ELSE {})
    \cup (IF isp /\ proba THEN {"my_roc_curve"} ELSE {})
    \cup (IF isp /\ d.learning_curve THEN {"my_learing_curve"} ELSE {})
    \cup (IF isp /\ ClassName(a) = "DecisionTreeClassifier" THEN {"my_tree"} ELSE {})
    \cup (IF d.report /\ isp THEN {"my_classification_report"} ELSE {})

\* what the trainer prints and calls from the search or the fit to its end
Epilogue(a, cv_, d, isp, estimator) ==
    IF estimator.kind = "None" THEN {"print error"}
    ELSE IF estimator.stage \in {"search", "fit"} THEN {}
    ELSE IF estimator.stage = "score" THEN SearchReport(cv_, isp)
    ELSE SearchReport(cv_, isp) \cup Renders(a, d, isp, estimator.proba)

\* the names in the keyword arguments `params` of my_classification
Keys(p) ==
    CASE p = "none"        -> {}
      [] p = "probability" -> {"probability"}
      [] p = "bogus"       -> {"bogus"}

\* the default search space each wrapper substitutes for an empty mapping
DefaultGrid(a) ==
    CASE a = "logistic" -> {"penalty", "C", "max_iter"}
      [] a = "knn"      -> {"n_neighbors", "weights", "metric"}
      [] a = "svc"      -> {"C", "kernel", "degree"}
      [] a = "nb"       -> {"var_smoothing"}
      [] a = "dtree"    -> {"criterion"}
      [] a = "sgd"      -> {"loss", "penalty", "alpha", "max_iter", "learning_rate", "eta0"}

\* lines 150-158: the entries the trainer writes into its mapping at cv <= 0
Injected(a, cv_) ==
    IF cv_ > 0 THEN {} ELSE Signature(a) \cap {"n_jobs", "random_state"}

\* wrappers that substitute their grid for an empty mapping at every cv
JobKeysAnyCv(a, cv_, names) ==
    (IF names = {} THEN DefaultGrid(a) ELSE names) \cup Injected(a, cv_)

\* the mapping the trainer works on, from the caller's names: the wrapper's
\* default grid for an empty mapping at cv > 0, then the injected entries
JobKeys(a, cv_, names) ==
    (IF cv_ > 0 /\ names = {} THEN DefaultGrid(a) ELSE names) \cup Injected(a, cv_)

\* lines 89-99 and 150-158: the entries __my_classification writes for the
\* constructor, each under `if "<p>" in ...signature(classname.__init__)`;
\* the early_stopping entry at cv > 0 only
Overrides(a) == Signature(a) \cap {"n_jobs", "random_state"}

\* the keyword names of the call of the constructor: classname(**args) at
\* line 110, classname(**params) at line 160
ConstructorArgs(a, cv_, names) ==
    IF cv_ > 0
    THEN Overrides(a) \cup (Signature(a) \cap {"early_stopping"})
    ELSE names \cup Overrides(a)

\* the owners of a hyperparameter mapping: the caller of my_classification
\* and each job
Owners == {"caller"} \cup Identifiers

\* a call that hands the caller's mapping itself to the job
SharedMapping(a) == "caller"

\* f(**params) builds a new mapping for the callee: the job works on its own
OwnMapping(a) == a

(***************************************************************************)
(* Dispatcher: my_classification                                           *)
(***************************************************************************)
\* the `if` without `not algorithm`
SelectedIfListed(a) == a \in algorithm.ids

\* `algorithm is None or "<a>" in algorithm`
SelectedIfNone(a) == ~algorithm.given \/ a \in algorithm.ids

\* `not algorithm or "<a>" in algorithm`
Selected(a) == ~algorithm.given \/ algorithm.ids = {} \/ a \in algorithm.ids

NoFuture == [state |-> "absent", result |-> NoResult(""), steps |-> <<>>, args |-> {}]

Submitted == Range(processes)

Running == {a \in Submitted : future[a].state = "running"}

\* leaving the with-block without joining the workers
NoJoin == TRUE

\* ThreadPoolExecutor.shutdown(wait=True): every worker has drained the queue
AllResolved == \A a \in Submitted : future[a].state = "done"

\* a table that fills the missing cells with 0
DataFrameZeroFilled(rows, index) ==
    LET cols == UNION {DOMAIN rows[i] : i \in 1..Len(rows)}
    IN  [index   |-> index,
         columns |-> cols,
         cell    |-> [i \in 1..Len(rows) |->
                        [c \in cols |-> IF c \in DOMAIN rows[i] THEN rows[i][c] ELSE "0"]]]

\* DataFrame(results, index=estimator_names): the columns are the union of the
\* keys of the rows; a key a row lacks is NaN in that row
DataFrame(rows, index) ==
    LET cols == UNION {DOMAIN rows[i] : i \in 1..Len(rows)}
    IN  [index   |-> index,
         columns |-> cols,
         cell    |-> [i \in 1..Len(rows) |->
                        [c \in cols |-> IF c \in DOMAIN rows[i] THEN rows[i][c] ELSE "NaN"]]]

EmptyFrame == [index |-> <<>>, columns |-> {}, cell |-> <<>>]

\* executor.submit(my_<a>_classification, ...) under its `if`
Submit ==
    /\ pc = "submit"
    /\ slot <= Len(Algorithms)
    /\ LET a == Algorithms[slot] IN
         IF Selected(a)
         THEN /\ processes' = Append(processes, a)
              /\ future' = [future EXCEPT ![a].state = "pending"]
         ELSE UNCHANGED <<processes, future>>
    /\ slot' = slot + 1
    /\ pc' = IF slot = Len(Algorithms) THEN "as_completed" ELSE "submit"
    /\ UNCHANGED <<config, done, finished, pending, report, result_df, tables, exc, faults,
                   console, kwargs, retval, outside>>

\* a worker thread takes the oldest queued work item and runs it up to the
\* search or the fit: the wrapper and the first statements of the trainer
Start(a) ==
    /\ future[a].state = "pending"
    /\ Cardinality(Running) < MaxWorkers
    /\ \A i \in 1..Len(processes) :
         processes[i] = a => \A k \in 1..(i-1) : future[processes[k]].state # "pending"
    /\ future' = [future EXCEPT ![a].state = "running",
                                ![a].args = ConstructorArgs(a, cv, kwargs["caller"])]
    /\ console' = [console EXCEPT ![a] = Preamble(a, cv)]
    /\ kwargs' = [kwargs EXCEPT ![OwnMapping(a)] = JobKeys(a, cv, kwargs["caller"])]
    /\ UNCHANGED <<config, pc, slot, processes, done, finished, pending, report,
                   result_df, tables, exc, faults, retval, outside>>

\* the job runs to its end: the future holds its return value or its exception
Finish(a) ==
    /\ future[a].state = "running"
    /\ \E fault \in EnvFaults(cv), proba \in HasProbaChoices(a, cv, params),
          v \in MetricValues(RandomState(a)) :
         /\ fault # "none" => faults < MaxFaults
         /\ faults' = IF fault = "none" THEN faults ELSE faults + 1
         /\ future' = [future EXCEPT ![a] =
                         [state |-> "done", result |-> Job(a, fault, proba, v),
                          steps |-> Steps(a, cv, params, fault),
                          args  |-> future[a].args]]
         /\ console' = [console EXCEPT ![a] =
                          @ \cup Epilogue(a, cv, WrapperDisplay(a, display), is_print,
                                          Job(a, fault, proba, v))]
    /\ done' = Append(done, a)
    /\ UNCHANGED <<config, pc, slot, processes, finished, pending, report,
                   result_df, tables, exc, kwargs, retval, outside>>

\* futures.as_completed(processes): the futures finished by now are set apart
AsCompleted ==
    /\ pc = "as_completed"
    /\ finished' = {a \in Submitted : future[a].state = "done"}
    /\ pending' = {a \in Submitted : future[a].state # "done"}
    /\ pc' = "loop"
    /\ UNCHANGED <<config, slot, processes, future, done, report, result_df, tables,
                   exc, faults, console, kwargs, retval, outside>>

\* the future as_completed yields next: any of the set `finished` while it
\* lasts (a set has no order), then the pending ones as they complete
Yieldable ==
    IF finished # {} THEN finished
    ELSE IF done # <<>> THEN {Head(done)} ELSE {}

\* the loop body without its None test
KeepAll(estimator) == TRUE

\* `if estimator is not None`
Keep(estimator) == estimator.kind # "None"

\* one iteration of `for p in futures.as_completed(processes)`
Loop(a) ==
    /\ pc = "loop"
    /\ a \in Yieldable
    /\ finished' = finished \ {a}
    /\ pending' = pending \ {a}
    /\ done' = Remove(done, a)
    /\ LET estimator == future[a].result IN
         IF estimator.kind = "raise"
         THEN /\ exc' = TRUE
              /\ pc' = "exit"
              /\ UNCHANGED report
         ELSE IF Keep(estimator)
         THEN /\ estimator_names' = Append(estimator_names, estimator.name)
              /\ estimators' = IF estimator.name \in Range(estimators)
                               THEN estimators
                               ELSE Append(estimators, estimator.name)
              /\ results' = Append(results, estimator.scores.card)
              /\ UNCHANGED <<exc, pc>>
         ELSE UNCHANGED <<exc, pc, report>>
    /\ UNCHANGED <<config, slot, processes, future, result_df, tables, faults,
                   console, kwargs, retval, outside>>

\* after the loop: result_df = DataFrame(...); my_pretty_table(result_df)
Table ==
    /\ pc = "loop"
    /\ finished = {} /\ pending = {}
    /\ result_df' = DataFrame(results, estimator_names)
    /\ tables' = tables + 1
    /\ pc' = "exit"
    /\ UNCHANGED <<config, slot, processes, future, done, finished, pending, report,
                   exc, faults, console, kwargs, retval, outside>>

\* nothing was returned
NoValue == [none |-> TRUE]

\* `return estimators`
Return == [estimators |-> estimators]

\* leaving the with-block: executor.__exit__ joins the workers, then the
\* function returns estimators or the exception goes on to the caller
Exit ==
    /\ pc = "exit"
    /\ AllResolved
    /\ pc' = IF exc THEN "raised" ELSE "returned"
    /\ retval' = IF exc THEN NoValue ELSE Return
    /\ UNCHANGED <<config, slot, processes, future, done, finished, pending, report,
                   result_df, tables, exc, faults, console, kwargs, outside>>

Next ==
    \/ Submit
    \/ \E a \in Identifiers : Start(a)
    \/ \E a \in Identifiers : Finish(a)
    \/ AsCompleted
    \/ \E a \in Identifiers : Loop(a)
    \/ Table
    \/ Exit

NoMatrix == [TN |-> 0, FP |-> 0, FN |-> 0, TP |-> 0]

NotComputed == [kind |-> "none", n |-> 0, d |-> 1]

NoRates == [fallout |-> NotComputed, specificity |-> NotComputed]

\* no confusion matrix is being rated
Unrated == conf_mat = NoMatrix /\ rates = NoRates

\* the first call, with nothing to compare with
FirstRun == run = 1 /\ first = {}

\* control is back with the caller
Terminal == pc \in {"returned", "raised"}

\* the locals of my_classification before its first statement
Locals0 ==
    /\ slot = 1
    /\ processes = <<>>
    /\ future = [a \in Identifiers |-> NoFuture]
    /\ done = <<>>
    /\ finished = {}
    /\ pending = {}
    /\ estimator_names = <<>>
    /\ results = <<>>
    /\ estimators = <<>>
    /\ result_df = EmptyFrame
    /\ tables = 0
    /\ exc = FALSE
    /\ faults = 0
    /\ console = [a \in Identifiers |-> {}]
    /\ kwargs = [o \in Owners |-> IF o = "caller" THEN Keys(params) ELSE {}]
    /\ retval = NoValue

\* the state at the first statement of my_classification
Start0 == pc = "submit" /\ Locals0

None == [given |-> FALSE, ids |-> {}]

List(ids) == [given |-> TRUE, ids |-> ids]

\* every value of the algorithm argument: None, or a list of identifiers,
\* possibly empty, possibly holding an identifier no `if` tests
AlgorithmArgs ==
    {None} \cup {List(s) : s \in SUBSET Identifiers}
           \cup {List(s \cup Unrecognised) : s \in {{}, {"knn"}}}

\* None, the lists of at most MaxSubset algorithms, and a list of
\* unrecognised identifiers only
BatchArgs ==
    {None} \cup {List(s) : s \in {t \in SUBSET Identifiers :
                                    t # {} /\ Cardinality(t) <= MaxSubset}}
           \cup {List(Unrecognised)}

\* the binary branch of the metric reporter never reads multiclass
Datasets ==
    /\ nclass \in {2, 3}
    /\ multiclass \in {"None", "ovo", "ovr"}
    /\ nclass = 2 => multiclass = "None"

\* None runs the six jobs on one dataset, with a search and no
\* hyperparameters; the explicit lists run on every dataset, with and
\* without a search, with every hyperparameter choice; the display arguments
\* are the defaults
Init ==
    /\ algorithm \in BatchArgs
    /\ cv \in {0, 5}
    /\ Datasets
    /\ x_test \in BOOLEAN
    /\ y_test = x_test
    /\ params \in ParamChoices
    /\ algorithm = None =>
         nclass = 3 /\ multiclass = "ovr" /\ x_test /\ cv = 5 /\ params = "none"
    /\ display = DefaultDisplay
    /\ reliable = FALSE
    /\ Start0
    /\ Unrated
    /\ FirstRun

Spec == Init /\ [][Next]_vars

\* every value of the algorithm argument, on one dataset on which nothing
\* raises unless the hyperparameters are invalid
InitSelect ==
    /\ algorithm \in AlgorithmArgs
    /\ cv = 5
    /\ nclass = 2
    /\ multiclass = "None"
    /\ x_test = TRUE
    /\ y_test = TRUE
    /\ params \in {"none", "bogus"}
    /\ display = DefaultDisplay
    /\ reliable = TRUE
    /\ Start0
    /\ Unrated
    /\ FirstRun

SpecSelect == InitSelect /\ [][Next]_vars

\* one job of each algorithm, and two pairs of jobs
ArgsLists ==
    {List({a}) : a \in Identifiers} \cup {List({"logistic", "dtree"}), List({"svc", "nb"})}

\* every value of the display arguments and of the validation arguments,
\* each given or not on its own
InitArgs ==
    /\ algorithm \in ArgsLists
    /\ cv \in {0, 5}
    /\ Datasets
    /\ x_test \in BOOLEAN
    /\ y_test \in BOOLEAN
    /\ params = "none"
    /\ display \in Displays
    /\ reliable = FALSE
    /\ Start0
    /\ Unrated
    /\ FirstRun

SpecArgs == InitArgs /\ [][Next]_vars

\* the scorecards a call gives its caller, by estimator name: those of the
\* estimators it returns, none when it raises
Scorecards ==
    IF pc = "returned"
    THEN {<<estimator_names[i], results[i]>> : i \in 1..Len(estimator_names)}
    ELSE {}

\* the caller calls my_classification again with the same arguments; its
\* mapping of hyperparameters is the one the first call left
Rerun ==
    /\ Terminal
    /\ run = 1
    /\ first' = Scorecards
    /\ run' = 2
    /\ pc' = "submit"
    /\ slot' = 1
    /\ processes' = <<>>
    /\ future' = [a \in Identifiers |-> NoFuture]
    /\ done' = <<>>
    /\ finished' = {}
    /\ pending' = {}
    /\ estimator_names' = <<>>
    /\ results' = <<>>
    /\ estimators' = <<>>
    /\ result_df' = EmptyFrame
    /\ tables' = 0
    /\ exc' = FALSE
    /\ faults' = 0
    /\ console' = [a \in Identifiers |-> {}]
    /\ kwargs' = [o \in Owners |-> IF o = "caller" THEN kwargs["caller"] ELSE {}]
    /\ retval' = NoValue
    /\ UNCHANGED <<config, conf_mat, rates>>

NextTwice == Next \/ Rerun

\* two calls on the same data, on which nothing raises unless the
\* hyperparameters are invalid: what raises in one call raises in the other
InitTwice ==
    /\ algorithm \in BatchArgs
    /\ cv \in {0, 5}
    /\ Datasets
    /\ x_test \in BOOLEAN
    /\ y_test = x_test
    /\ algorithm = None => nclass = 3 /\ multiclass = "ovr" /\ x_test
    /\ params \in ParamChoices
    /\ display = DefaultDisplay
    /\ reliable = TRUE
    /\ Start0
    /\ Unrated
    /\ FirstRun

SpecTwice == InitTwice /\ [][NextTwice]_vars

\* my_classification_result on a binary estimator: the two rates of lines
\* 313-314 (training row) and 374-375 (validation row)
Rate ==
    /\ pc = "rate"
    /\ rates' = [fallout |-> Fallout(conf_mat), specificity |-> Specificity(conf_mat)]
    /\ pc' = "rated"
    /\ UNCHANGED <<config, slot, processes, future, done, finished, pending, report,
                   result_df, tables, exc, faults, console, kwargs, retval,
                   conf_mat, run, first>>

NextRates == Rate

\* confusion_matrix(y, y_pred) is 2x2, as the unpacking of lines 306 and 366
\* needs, when both labels occur in y or in y_pred
ConfusionMatrices ==
    {m \in [TN : 0..MaxCount, FP : 0..MaxCount, FN : 0..MaxCount, TP : 0..MaxCount] :
       /\ m.TN + m.FP + m.FN > 0
       /\ m.FP + m.FN + m.TP > 0}

\* every binary confusion matrix of counts up to MaxCount
InitRates ==
    /\ algorithm = List({"logistic"})
    /\ cv = 0
    /\ nclass = 2
    /\ multiclass = "None"
    /\ x_test = TRUE
    /\ y_test = TRUE
    /\ params = "none"
    /\ display = DefaultDisplay
    /\ reliable = TRUE
    /\ pc = "rate"
    /\ Locals0
    /\ conf_mat \in ConfusionMatrices
    /\ rates = NoRates
    /\ FirstRun

SpecRates == InitRates /\ [][NextRates]_vars

(***************************************************************************)
(* Vocabulary of the properties                                            *)
(***************************************************************************)
Resolved(a) == future[a].state = "done"

Ok(a) == Resolved(a) /\ future[a].result.kind = "estimator"

\* the futures the loop has taken from as_completed so far
Yielded ==
    IF pc \in {"submit", "as_completed"} THEN {} ELSE Submitted \ (finished \cup pending)

AllSubmitted == slot = Len(Algorithms) + 1

FailedAt(stage) == {a \in Submitted : Resolved(a) /\ future[a].result.stage = stage}

Card(a) == future[a].result.scores.card

NameSet(S) == {ClassName(a) : a \in S}

(***************************************************************************)
(* C1.  With cv > 0, a job whose hyperparameter search raises returns None *)
(* and holds no exception; when the searches are the only thing that       *)
(* failed, my_classification returns, and the report holds exactly the     *)
(* jobs that succeeded: one entry less than jobs per failed search.        *)
(***************************************************************************)
C1_SearchFailureContained ==
    cv > 0 =>
      /\ \A a \in FailedAt("search") : future[a].result.kind = "None"
      /\ (Terminal /\ \A a \in Submitted : future[a].result.stage \in {"done", "search"}) =>
           /\ pc = "returned"
           /\ {estimator_names[i] : i \in 1..Len(estimator_names)}
                = NameSet({a \in Submitted : Ok(a)})
           /\ Len(estimator_names) = Len(processes) - Cardinality(FailedAt("search"))

\* six jobs, exactly one failing search, five entries returned
C1_Witness ==
    /\ pc = "returned"
    /\ cv > 0
    /\ Len(processes) = 6
    /\ Cardinality(FailedAt("search")) = 1
    /\ Len(estimator_names) = 5

(***************************************************************************)
(* C2.  For every cv, a failure inside one job never makes                 *)
(* my_classification raise: it returns, and the report holds the jobs that *)
(* succeeded.                                                              *)
(***************************************************************************)
C2_NoFailureEscapes ==
    Terminal =>
      /\ pc = "returned"
      /\ {estimator_names[i] : i \in 1..Len(estimator_names)}
           = NameSet({a \in Submitted : Ok(a)})

(***************************************************************************)
(* C3.  The report lists the succeeded jobs in completion order: a         *)
(* succeeded job enters the report only when no succeeded job that         *)
(* finished before it is still waiting to be taken.                        *)
(***************************************************************************)
Position(seq, x) == CHOOSE i \in 1..Len(seq) : seq[i] = x

C3_CompletionOrder ==
    [][\A a \in Identifiers :
         (pc = "loop" /\ a \in finished \cup pending
            /\ a \notin finished' \cup pending' /\ Ok(a))
         => \A i \in 1..Len(done) : Ok(done[i]) => Position(done, a) <= i]_vars

C5_ReportConsistent ==
    /\ Len(estimator_names) = Len(results)
    /\ Len(estimators) = Len(results)
    /\ \A i \in 1..Len(estimator_names) :
         /\ estimators[i] = estimator_names[i]
         /\ \E a \in Yielded :
              /\ Ok(a)
              /\ ClassName(a) = estimator_names[i]
              /\ results[i] = Card(a)
    /\ \A a \in Yielded :
         Ok(a) <=> ClassName(a) \in {estimator_names[i] : i \in 1..Len(estimator_names)}
    /\ \A i, j \in 1..Len(estimator_names) :
         i # j => estimator_names[i] # estimator_names[j]

\* mid-loop: a failed job and a succeeded job were taken, others are still out
C5_Witness ==
    /\ pc = "loop"
    /\ pending # {}
    /\ Len(estimator_names) >= 1
    /\ \E a \in Yielded : ~Ok(a)

(***************************************************************************)
(* C6.  When no submitted job succeeds (or none is submitted),             *)
(* my_classification returns an empty report and does not raise.           *)
(***************************************************************************)
C6_AllFailedIsEmptyReport ==
    (Terminal /\ \A a \in Submitted : ~Ok(a)) =>
      /\ pc = "returned"
      /\ estimator_names = <<>>
      /\ estimators = <<>>
      /\ result_df.index = <<>>

(***************************************************************************)
(* C7 as stated.  None submits the six jobs; a list S of identifiers       *)
(* submits exactly the jobs of S.                                          *)
(***************************************************************************)
C7_OneJobPerListed ==
    AllSubmitted =>
      Submitted = (IF algorithm.given THEN algorithm.ids \cap Identifiers ELSE Identifiers)

\* the jobs my_classification is to submit: all six for None and for an
\* empty list, the recognised identifiers of a non-empty list
Requested ==
    IF ~algorithm.given \/ algorithm.ids = {} THEN Identifiers
    ELSE algorithm.ids \cap Identifiers

(***************************************************************************)
(* C7, amended.  None or an empty list submits the six jobs, a non-empty   *)
(* list exactly one job per recognised identifier in it; no job is         *)
(* submitted twice, also after a failure; when every job succeeds the      *)
(* report has one row per submitted job.                                   *)
(***************************************************************************)
C7_OneJobPerRequested ==
    /\ Submitted \subseteq Requested
    /\ Len(processes) = Cardinality(Submitted)
    /\ AllSubmitted => Submitted = Requested
    /\ (pc = "returned" /\ \A a \in Submitted : Ok(a)) =>
         Len(estimator_names) = Cardinality(Requested)

\* a list of three: three jobs, three rows
C7_Witness ==
    /\ pc = "returned"
    /\ algorithm.given
    /\ Cardinality(algorithm.ids) = 3
    /\ Len(processes) = 3
    /\ Len(estimator_names) = 3

(***************************************************************************)
(* C8.  The columns of the comparison table are the union of the scorecard *)
(* keys of the succeeded jobs, and a cell is the job's value or, where the *)
(* job has no such metric, the absent marker: on a binary target a job     *)
(* without predict_proba has NaN under AUC, a job with it a value.         *)
(***************************************************************************)
JobOfRow(i) == CHOOSE a \in Submitted : Ok(a) /\ ClassName(a) = result_df.index[i]

C8_ColumnUnion ==
    tables = 1 =>
      /\ result_df.index = estimator_names
      /\ result_df.columns = UNION {DOMAIN Card(a) : a \in {b \in Submitted : Ok(b)}}
      /\ \A i \in 1..Len(result_df.index) : \A c \in result_df.columns :
           result_df.cell[i][c] =
             IF c \in DOMAIN Card(JobOfRow(i)) THEN Card(JobOfRow(i))[c] ELSE "NaN"
      /\ \A i \in 1..Len(result_df.index) :
           (nclass = 2 /\ "AUC" \in result_df.columns) =>
             result_df.cell[i]["AUC"] =
               (IF future[JobOfRow(i)].result.proba THEN "value" ELSE "NaN")

\* a binary table with a row that has an AUC and a row that has none
C8_Witness ==
    /\ tables = 1
    /\ nclass = 2
    /\ "AUC" \in result_df.columns
    /\ \E i, j \in 1..Len(result_df.index) :
         /\ result_df.cell[i]["AUC"] = "NaN"
         /\ result_df.cell[j]["AUC"] = "value"

(***************************************************************************)
(* C9 as stated.  Binary target, algorithm = [logistic, dtree], cv = 0, no *)
(* failing hyperparameter: two rows, each with accuracy, precision,        *)
(* recall, fallout, specificity and F1, and AUC for logistic only.         *)
(***************************************************************************)
Scenario9 ==
    /\ nclass = 2
    /\ algorithm = List({"logistic", "dtree"})
    /\ cv = 0
    /\ params = "none"

CommonBinaryKeys == {"Accuracy", "Precision", "Recall", "Fallout", "TNR", "F1 Score"}

C9_AucForLogisticOnly ==
    (Scenario9 /\ pc = "returned") =>
      /\ Len(results) = 2
      /\ \A i \in 1..Len(results) :
           /\ CommonBinaryKeys \subseteq DOMAIN results[i]
           /\ "AUC" \in DOMAIN results[i] <=> estimator_names[i] = "LogisticRegression"

(***************************************************************************)
(* C9, amended.  In that scenario the report has two rows, each with the   *)
(* six metrics, and AUC is in both scorecards: the decision tree has       *)
(* predict_proba too.                                                      *)
(***************************************************************************)
C9_AucForBoth ==
    (Scenario9 /\ pc = "returned") =>
      /\ Len(results) = 2
      /\ {estimator_names[i] : i \in 1..2} = {"LogisticRegression", "DecisionTreeClassifier"}
      /\ \A i \in 1..Len(results) :
           /\ CommonBinaryKeys \subseteq DOMAIN results[i]
           /\ "AUC" \in DOMAIN results[i]

C9_Witness == Scenario9 /\ pc = "returned" /\ tables = 1

(***************************************************************************)
(* C10 as stated.  Target of more than two classes, multiclass = "ovr":    *)
(* every succeeded job has AUC(ovr) and has no AUC(ovo).                   *)
(***************************************************************************)
C10_EveryJobHasOvr ==
    (nclass > 2 /\ multiclass = "ovr") =>
      \A a \in Submitted : Ok(a) =>
        /\ "AUC(ovr)" \in DOMAIN Card(a)
        /\ "AUC(ovo)" \notin DOMAIN Card(a)

(***************************************************************************)
(* C10, amended.  With more than two classes and multiclass = "ovr", a     *)
(* succeeded job has AUC(ovr) exactly when its estimator has predict_proba *)
(* (svc and sgd have none by default), and no job but svc has AUC(ovo):    *)
(* my_svc_classification passes no multiclass on, so an SVC with           *)
(* probability estimates has both.                                         *)
(***************************************************************************)
C10_OvrWithProbabilities ==
    (nclass > 2 /\ multiclass = "ovr") =>
      \A a \in Submitted : Ok(a) =>
        /\ "AUC(ovr)" \in DOMAIN Card(a) <=> future[a].result.proba
        /\ "AUC(ovo)" \in DOMAIN Card(a) <=> (a = "svc" /\ future[a].result.proba)

\* six succeeded jobs on three classes with multiclass = "ovr"
C10_Witness ==
    /\ pc = "returned"
    /\ nclass > 2
    /\ multiclass = "ovr"
    /\ Len(estimator_names) = 6

(***************************************************************************)
(* C11.  Every job of my_classification runs with is_print = False, and a  *)
(* job calls no rendering collaborator whatever conf_matrix,               *)
(* learning_curve and report are; the one rendering call is the table of   *)
(* the dispatcher, made at most once and only when every job has resolved. *)
(***************************************************************************)
C11_QuietJobs ==
    /\ \A a \in Identifiers : console[a] \cap Rendering = {}
    /\ tables <= 1
    /\ tables = 1 => AllSubmitted /\ \A a \in Submitted : Resolved(a)

\* a search, a decision tree and a logistic regression scored with every
\* display argument on, and the table of the dispatcher rendered
C11_Witness ==
    /\ pc = "returned"
    /\ tables = 1
    /\ cv > 0
    /\ display = [conf_matrix |-> TRUE, learning_curve |-> TRUE, report |-> TRUE]
    /\ Ok("dtree")
    /\ Ok("logistic")

(***************************************************************************)
(* C12.  No job writes to the console while the jobs run concurrently:     *)
(* from the first submit to the join there is no state in which two        *)
(* running jobs have both written.                                         *)
(***************************************************************************)
C12_NoInterleavedOutput ==
    \A a, b \in Running : a # b => console[a] = {} \/ console[b] = {}

(***************************************************************************)
(* C13.  The scorecard stored on the estimator of a job is the validation  *)
(* scorecard exactly when both x_test and y_test are given and the         *)
(* training scorecard in every other case; it is never the row of          *)
(* descriptions.                                                           *)
(***************************************************************************)
C13_StoredScorecard ==
    \A a \in Submitted : Ok(a) =>
      /\ future[a].result.scores.split = "test" <=> (x_test /\ y_test)
      /\ future[a].result.scores.split = "train" <=> ~(x_test /\ y_test)
      /\ future[a].result.scores.split # "description"

\* a job scored with x_test given and y_test not: the training scorecard
C13_Witness ==
    \E a \in Submitted :
      /\ Ok(a)
      /\ x_test /\ ~y_test
      /\ future[a].result.scores.split = "train"

(***************************************************************************)
(* C14.  The keys of every stored scorecard, and of every row of the       *)
(* report, are among the metrics of the branch of its class count: for two *)
(* classes Pseudo R2, Accuracy, Precision, Recall, Fallout, TNR, F1 Score  *)
(* and AUC, for more classes Accuracy, Precision, Recall, F1 Score,        *)
(* AUC(ovo) and AUC(ovr).                                                  *)
(***************************************************************************)
Canonical(n) ==
    IF n = 2
    THEN {"Pseudo R2", "Accuracy", "Precision", "Recall", "Fallout", "TNR", "F1 Score", "AUC"}
    ELSE {"Accuracy", "Precision", "Recall", "F1 Score", "AUC(ovo)", "AUC(ovr)"}

C14_CanonicalKeys ==
    /\ \A a \in Submitted : Ok(a) => DOMAIN Card(a) \subseteq Canonical(nclass)
    /\ \A i \in 1..Len(results) : DOMAIN results[i] \subseteq Canonical(nclass)
    /\ nclass = 2 =>
         \A a \in Submitted : Ok(a) => DOMAIN Card(a) \cap {"AUC(ovo)", "AUC(ovr)"} = {}
    /\ nclass > 2 =>
         \A a \in Submitted : Ok(a) =>
           DOMAIN Card(a) \cap {"Fallout", "TNR", "Pseudo R2", "AUC"} = {}

\* three classes: a scorecard with both AUC(ovo) and AUC(ovr) and a
\* scorecard with neither are in the report
C14_Witness ==
    /\ pc = "returned"
    /\ nclass > 2
    /\ \E i, j \in 1..Len(results) :
         /\ {"AUC(ovo)", "AUC(ovr)"} \subseteq DOMAIN results[i]
         /\ DOMAIN results[j] = {"Accuracy", "Precision", "Recall", "F1 Score"}

(***************************************************************************)
(* C15.  On a binary target the pseudo R2 of every estimator but           *)
(* LogisticRegression is 0, and neither the table of one model nor the     *)
(* comparison table of my_classification shows a Pseudo R2 value in the    *)
(* row of such an estimator.                                               *)
(***************************************************************************)
C15_NoPseudoR2ForOthers ==
    /\ \A a \in Submitted : (Ok(a) /\ nclass = 2 /\ a # "logistic") =>
         /\ Card(a)["Pseudo R2"] = "0"
         /\ "Pseudo R2" \notin PerModelColumns(ClassName(a), DOMAIN Card(a))
    /\ tables = 1 =>
         \A i \in 1..Len(result_df.index) :
           (result_df.index[i] # "LogisticRegression"
              /\ "Pseudo R2" \in result_df.columns)
           => result_df.cell[i]["Pseudo R2"] = "NaN"

(***************************************************************************)
(* C16.  my_classification returns to its caller the mapping of estimator  *)
(* name to estimator together with the comparison table: both are part of  *)
(* the returned value.                                                     *)
(***************************************************************************)
C16_ReturnsMappingAndTable ==
    pc = "returned" =>
      /\ {"estimators", "result_df"} \subseteq DOMAIN retval
      /\ retval.estimators = estimators
      /\ retval.result_df = result_df

(***************************************************************************)
(* C17.  With cv <= 0, two calls of my_classification with the same data,  *)
(* options and hyperparameters give the same scorecard for every           *)
(* algorithm, whatever the order in which the jobs of either call start,   *)
(* finish and are taken: when the second call ends, its scorecards are     *)
(* those of the first.                                                     *)
(***************************************************************************)
C17_Idempotent ==
    (run = 2 /\ cv <= 0 /\ Terminal) => Scorecards = first

\* the second call of a batch of six has returned six scorecards
C17_Witness ==
    /\ run = 2
    /\ cv <= 0
    /\ pc = "returned"
    /\ Len(estimator_names) = 6
    /\ Cardinality(first) = 6

(***************************************************************************)
(* Arithmetic of the rates                                                 *)
(***************************************************************************)
\* r1 + r2
Add(r1, r2) ==
    IF r1.kind = "number" /\ r2.kind = "number"
    THEN Number(r1.n * r2.d + r2.n * r1.d, r1.d * r2.d)
    ELSE NaN

IsOne(r) == r.kind = "number" /\ r.n = r.d

Same(r1, r2) ==
    /\ r1.kind = r2.kind
    /\ r1.kind = "number" => r1.n * r2.d = r2.n * r1.d

(***************************************************************************)
(* C18 as stated.  For every 2x2 confusion matrix of non-negative counts,  *)
(* TN + FP = 0 included, fallout + specificity = 1, with                   *)
(* fallout = FP / (TN + FP) and specificity = 1 - fallout.                 *)
(***************************************************************************)
C18_RatesSumToOne ==
    pc = "rated" =>
      /\ IsOne(Add(rates.fallout, rates.specificity))
      /\ Same(rates.fallout, Divide(conf_mat.FP, conf_mat.TN + conf_mat.FP))
      /\ Same(rates.specificity, OneMinus(rates.fallout))

(***************************************************************************)
(* C18, amended.  With TN + FP > 0, fallout is the number FP / (TN + FP),  *)
(* specificity is TN / (TN + FP) = 1 - fallout, and their sum is 1; with   *)
(* TN + FP = 0 both are NaN, not 0, and so is their sum.                   *)
(***************************************************************************)
C18_RatesSumToOneOrNaN ==
    pc = "rated" =>
      /\ conf_mat.TN + conf_mat.FP > 0 =>
           /\ Same(rates.fallout, Number(conf_mat.FP, conf_mat.TN + conf_mat.FP))
           /\ Same(rates.specificity, Number(conf_mat.TN, conf_mat.TN + conf_mat.FP))
           /\ IsOne(Add(rates.fallout, rates.specificity))
      /\ conf_mat.TN + conf_mat.FP = 0 =>
           /\ rates.fallout.kind = "nan"
           /\ rates.specificity.kind = "nan"
           /\ Add(rates.fallout, rates.specificity).kind = "nan"

\* the rates of a matrix without a negative sample: every sample is
\* positive and some are predicted negative
C18_Witness ==
    /\ pc = "rated"
    /\ conf_mat.TN + conf_mat.FP = 0
    /\ conf_mat.FN > 0
    /\ conf_mat.TP > 0
    /\ rates.fallout.kind = "nan"

(***************************************************************************)
(* C19.  The jobs of a batch share no mutable state.  The arguments of     *)
(* my_classification, the datasets among them, are changed by no step; the *)
(* hyperparameter mapping of the caller stays as it was passed; the        *)
(* mapping of a job holds the caller's names (or the wrapper's default     *)
(* grid) and the entries this job injected, never those of a sibling.      *)
(***************************************************************************)
Started(a) == future[a].state \in {"running", "done"}

C19_NoSharedState ==
    /\ [](/\ kwargs["caller"] = Keys(params)
          /\ \A a \in Identifiers :
               IF Started(a)
               THEN /\ kwargs[a] = JobKeys(a, cv, Keys(params))
                    /\ kwargs[a] \cap {"n_jobs", "random_state"} \subseteq Signature(a)
               ELSE kwargs[a] = {})
    /\ [][config' = config]_vars

\* cv = 0: a logistic regression that injected both entries and a naive
\* Bayes that injected none have run in one batch
C19_Witness ==
    /\ cv <= 0
    /\ params = "none"
    /\ Started("logistic")
    /\ Started("nb")
    /\ kwargs["logistic"] = {"n_jobs", "random_state"}
    /\ kwargs["nb"] = {}
    /\ kwargs["caller"] = {}

(***************************************************************************)
(* C20.  A job runs the search exactly when cv > 0 and the direct fit      *)
(* exactly when cv <= 0; it scores only after a search or fit that did not *)
(* raise; a job whose search or fit raised has no result value: None or an *)
(* exception, never an estimator, and an estimator is never without        *)
(* scores; a resolved job takes no further step.                           *)
(***************************************************************************)
C20_TrainerStateMachine ==
    /\ [](\A a \in Submitted : Resolved(a) =>
            LET r == future[a].result
                steps == future[a].steps
            IN  /\ "search" \in Range(steps) <=> cv > 0
                /\ "fit" \in Range(steps) <=> cv <= 0
                /\ "score" \in Range(steps) =>
                     /\ steps[Len(steps)] = "score"
                     /\ Len(steps) = 2
                     /\ r.stage \notin {"search", "fit"}
                /\ r.stage \in {"search", "fit"} =>
                     /\ r.kind \in {"None", "raise"}
                     /\ r.scores = NoScores
                     /\ "score" \notin Range(steps)
                /\ r.kind = "estimator" <=> r.scores # NoScores
                /\ r.kind = "estimator" =>
                     r.stage = "done" /\ r.scores.split \in {"train", "test"})
    /\ [][\A a \in Identifiers :
            Resolved(a) => future'[a] = future[a] /\ console'[a] = console[a]]_vars

\* a batch without a search in which a fit raised and a sibling was scored
C20_Witness ==
    /\ cv <= 0
    /\ Terminal
    /\ \E a, b \in Submitted :
         /\ Resolved(a) /\ future[a].result.stage = "fit" /\ future[a].steps = <<"fit">>
         /\ Ok(b) /\ future[b].steps = <<"fit", "score">>

\* the line __my_classification prints for an override it leaves out
OmissionLine(p) ==
    IF p = "n_jobs" THEN "print n_jobs not allowed" ELSE "print random_state not allowed"

(***************************************************************************)
(* C21.  For every algorithm and at every cv, the constructor of a started *)
(* job is called with n_jobs exactly when it has that parameter and with   *)
(* random_state exactly when it has that parameter, and for every one of   *)
(* the two that is left out the job has printed the line that says so.     *)
(***************************************************************************)
C21_OverridesAndOmissionsLogged ==
    \A a \in Identifiers :
      Started(a) =>
        \A p \in {"n_jobs", "random_state"} :
          /\ p \in future[a].args <=> p \in Signature(a)
          /\ p \notin Signature(a) => OmissionLine(p) \in console[a]

\* the job's mapping is the default grid of its own wrapper
UsesDefaultGrid(a) == kwargs[a] = DefaultGrid(a)

(***************************************************************************)
(* C22.  A started job works on the default grid of its own wrapper        *)
(* exactly when cv > 0 and my_classification was given no hyperparameters; *)
(* given hyperparameters are the job's search space unchanged at cv > 0;   *)
(* at cv <= 0 the job's mapping holds the given names and the injected     *)
(* n_jobs / random_state only, no grid; every job of a batch is handed the *)
(* same names, so either all the started jobs of a batch use their default *)
(* grids or none does.                                                     *)
(***************************************************************************)
C22_DefaultGridWhenNoSpace ==
    /\ \A a \in Identifiers :
         Started(a) =>
           /\ UsesDefaultGrid(a) <=> (cv > 0 /\ Keys(params) = {})
           /\ (cv > 0 /\ Keys(params) # {}) => kwargs[a] = Keys(params)
           /\ cv <= 0 => /\ kwargs[a] \ {"n_jobs", "random_state"} = Keys(params)
                         /\ kwargs[a] \cap DefaultGrid(a) = {}
    /\ \/ \A a \in Identifiers : Started(a) => UsesDefaultGrid(a)
       \/ \A a \in Identifiers : Started(a) => ~UsesDefaultGrid(a)

\* two jobs of one batch with a search and no hyperparameters, each on its
\* own grid
C22_Witness ==
    /\ cv > 0
    /\ Keys(params) = {}
    /\ \E a, b \in Identifiers :
         /\ Started(a) /\ Started(b)
         /\ UsesDefaultGrid(a) /\ UsesDefaultGrid(b)
         /\ kwargs[a] # kwargs[b]

\* the split the scores of the job are of: the validation split when both
\* x_test and y_test are given, else the training split
SplitUsed == IF x_test /\ y_test THEN "test" ELSE "train"

(***************************************************************************)
(* C23.  For every combination of x_test and y_test given or absent, the   *)
(* x, y and y_pred attached to a returned estimator, and y_pred_proba when *)
(* there is one, are all of the validation split when validation is used   *)
(* and all of the training split otherwise: y_pred is the prediction on    *)
(* the attached x and is as long as the attached y.                        *)
(***************************************************************************)
C23_AttachedDataOfOneSplit ==
    \A a \in Submitted :
      Ok(a) =>
        LET d == future[a].result.data
        IN  /\ d.x = SplitUsed
            /\ d.y = SplitUsed
            /\ d.y_pred = SplitUsed
            /\ d.y_pred_proba \in {SplitUsed, "absent"}
            /\ d.y_pred = d.x
            /\ d.y_pred = d.y

\* the report of a call that kept no estimator
EmptyReport ==
    /\ estimator_names = <<>>
    /\ results = <<>>
    /\ estimators = <<>>
    /\ result_df.index = <<>>
    /\ result_df.columns = {}
    /\ retval = [estimators |-> <<>>]

(***************************************************************************)
(* C24 as stated.  The jobs submitted are exactly the recognised           *)
(* identifiers in the algorithm argument: an empty list submits no job and *)
(* returns an empty report, as a list of unrecognised identifiers does;    *)
(* only None submits the six.                                              *)
(***************************************************************************)
C24_EmptyListSubmitsNothing ==
    /\ algorithm.given => Submitted \subseteq algorithm.ids
    /\ (AllSubmitted /\ algorithm.given) => Submitted = algorithm.ids \cap Identifiers
    /\ (AllSubmitted /\ ~algorithm.given) => Submitted = Identifiers
    /\ (pc = "returned" /\ algorithm.given /\ algorithm.ids \cap Identifiers = {}) =>
         processes = <<>> /\ EmptyReport

(***************************************************************************)
(* C24, amended.  A non-empty list submits exactly the recognised          *)
(* identifiers it holds, and no job and an empty report when it holds only *)
(* unrecognised ones; an empty list submits the six jobs, as None does.    *)
(***************************************************************************)
C24_EmptyListSelectsAll ==
    /\ (algorithm.given /\ algorithm.ids # {}) => Submitted \subseteq algorithm.ids
    /\ (AllSubmitted /\ algorithm.given /\ algorithm.ids # {}) =>
         Submitted = algorithm.ids \cap Identifiers
    /\ (AllSubmitted /\ (~algorithm.given \/ algorithm.ids = {})) =>
         /\ Submitted = Identifiers
         /\ processes = Algorithms
    /\ (pc = "returned" /\ algorithm.ids # {} /\ algorithm.ids \cap Identifiers = {}) =>
         processes = <<>> /\ EmptyReport

\* a call with an empty list has returned a report of six rows
C24_Witness ==
    /\ pc = "returned"
    /\ algorithm.given
    /\ algorithm.ids = {}
    /\ Len(processes) = 6
    /\ Len(estimator_names) = 6

====
